---- MODULE Spec2Model ----
(***************************************************************************)
(* Model of main/main.cpp of esp-hid-host: a NimBLE central that scans for *)
(* a HID peripheral (service 0x1812), connects to it from a polling task,  *)
(* subscribes to its characteristics and toggles a GPIO on every           *)
(* notification.                                                           *)
(*                                                                         *)
(* Two execution contexts are modelled.  The NimBLE host task delivers the *)
(* callbacks (onResult, onDisconnect, onAuthenticationComplete, notifyCB); *)
(* each callback is one atomic action.  The application task runs          *)
(* connectTask, which calls connectToServer; its position is pc (the loop) *)
(* and wpc (the workflow).                                                 *)
(* Callbacks interleave with every step of the application task, also      *)
(* while a connect call is blocked waiting for the stack.                  *)
(*                                                                         *)
(* The BLE stack is outside the repository.  It is modelled by what the    *)
(* calls in main.cpp ask of it: start/stop switch scanning on and off,     *)
(* connect either succeeds (the client becomes connected) or fails (its    *)
(* connection state is unchanged), the client list holds the created       *)
(* clients in creation order, and a connected client may be disconnected   *)
(* by its peer at any time.  The scan state changes only where main.cpp    *)
(* calls start or stop; advertisements are delivered only while the scan   *)
(* is active.                                                              *)
(***************************************************************************)
EXTENDS Integers, FiniteSets, Sequences, TLC

\* ------------------------------------------------------------------ bounds
NumPeers == 3
MaxNotif == 2

\* ------------------------------------------------------- program constants
\* build configuration of the stack, compared with at line 143
NIMBLE_MAX_CONNECTIONS == 2

NoDevice == 0       \* advDevice before the first matching advertisement
NoClient == 0       \* nullptr for NimBLEClient*

Addrs     == 1..NumPeers
ClientIds == 1..(NIMBLE_MAX_CONNECTIONS + 1)

\* the service UUID sets an advertisement may carry
AdvSets == { {}, {"180F"}, {"1812"}, {"1812", "180F"} }

\* characteristics a peer may expose: service, uuid, properties
ChrReport ==
    [svc |-> "1812", uuid |-> "2A4D",
     notify |-> TRUE, indicate |-> FALSE, read |-> TRUE]
ChrProto ==
    [svc |-> "1812", uuid |-> "2A4E",
     notify |-> FALSE, indicate |-> FALSE, read |-> TRUE]
ChrBatt ==
    [svc |-> "180F", uuid |-> "2A19",
     notify |-> TRUE, indicate |-> FALSE, read |-> TRUE]
ChrSvcChg ==
    [svc |-> "1801", uuid |-> "2A05",
     notify |-> FALSE, indicate |-> TRUE, read |-> FALSE]

AllChrs == {ChrReport, ChrProto, ChrBatt, ChrSvcChg}

\* the attribute table of the peer at address a: a HID device with an input
\* report, a HID device without one, a device without the HID service
Profile(a) ==
    CASE a = 1 -> {ChrReport, ChrProto}
      [] a = 2 -> {ChrProto, ChrSvcChg}
      [] a = 3 -> {ChrBatt}
      [] OTHER -> {ChrReport, ChrProto}

VARIABLES
    advDevice,   \* static advDevice: address of the device, 0 = null
    doConnect,   \* static bool doConnect
    pin_level,   \* file-scope static int pin_level
    gpio_level,  \* level driven on RECV_GPIO, -1 before app_main configures it
    scanning,    \* NimBLEDevice::getScan() is active
    clients,     \* NimBLEDevice client list, indexed by creation slot
    pc,          \* position of connectTask
    wpc,         \* position inside connectToServer
    pClient,     \* local pClient of connectToServer
    site,        \* source line of the connect call being made (127, 163, 172)
    how,         \* how pClient was obtained in this run
    before,      \* client handles that existed when the run began
    lastConn,    \* outcome of the last connect call of this run
    okConn,      \* some connect call of this run succeeded
    refreshed,   \* getServices(true) ran in this run
    result,      \* return value of connectToServer
    running,     \* activations of connectToServer in progress
    inFlight,    \* connect calls that have not returned
    nNotif,      \* notifications delivered to notifyCB
    lastCb,      \* what the last scan or authentication callback did
    ep           \* history of the pending connect request (see NoEpisode)

vars == <<advDevice, doConnect, pin_level, gpio_level, scanning, clients,
          pc, wpc, pClient, site, how, before, lastConn, okConn, refreshed,
          result, running, inFlight, nNotif, lastCb, ep>>

globals  == <<advDevice, doConnect, pin_level>>
runVars  == <<pClient, site, how, before, lastConn, okConn, refreshed, result>>

\* History of one connect request, from the advertisement that raises
\* doConnect from unset until connectTask reads it at line 257: how often the
\* flag went from unset to set, how often the scan went from active to
\* stopped, and whether onDisconnect restarted the scan in between.
NoEpisode == [open |-> FALSE, sets |-> 0, stops |-> 0, restarted |-> FALSE]

B2N(b) == IF b THEN 1 ELSE 0

\* the history after onResult changed the flag from f to f2 and the scan
\* from s to s2
EpisodeAfterAdv(e, f, f2, s, s2) ==
    IF e.open
      THEN [e EXCEPT !.sets = @ + B2N(~f /\ f2), !.stops = @ + B2N(s /\ ~s2)]
      ELSE IF ~f /\ f2
             THEN [open |-> TRUE, sets |-> 1, stops |-> B2N(s /\ ~s2),
                   restarted |-> FALSE]
             ELSE e

\* a slot of the client list: the peer address last connected to, whether
\* the link is up, and the subscribed characteristics
NoSlot == [exists |-> FALSE, peer |-> 0, connected |-> FALSE, subs |-> {}]

\* a client as NimBLEDevice::createClient() returns it
NewClient == [NoSlot EXCEPT !.exists = TRUE]

\* ------------------------------------------------------ stack operations
\* NimBLEDevice::getClientListSize()
getClientListSize(cl) == Cardinality({i \in ClientIds : cl[i].exists})

Min(S) == CHOOSE x \in S : \A y \in S : x <= y

\* NimBLEDevice::getClientByPeerAddress(addr): first client in the list
getClientByPeerAddress(cl, a) ==
    LET S == {i \in ClientIds : cl[i].exists /\ cl[i].peer = a}
    IN  IF S = {} THEN NoClient ELSE Min(S)

\* NimBLEDevice::getDisconnectedClient(): first client that is not connected
getDisconnectedClient(cl) ==
    LET S == {i \in ClientIds : cl[i].exists /\ ~cl[i].connected}
    IN  IF S = {} THEN NoClient ELSE Min(S)

\* NimBLEDevice::createClient(): the slot the new client takes
createClient(cl) == Min({i \in ClientIds : ~cl[i].exists})

\* variant: any advertised service counts as the target
isAdvertisingService_any(uuids, u) == uuids # {}

\* advertisedDevice->isAdvertisingService(uuid)
isAdvertisingService(uuids, u) == u \in uuids

\* variant: off by one, the limit is only noticed once it is exceeded
ClientLimitReached_late(cl) == getClientListSize(cl) > NIMBLE_MAX_CONNECTIONS

\* connectToServer line 143
ClientLimitReached(cl) == getClientListSize(cl) >= NIMBLE_MAX_CONNECTIONS

\* characteristics connectToServer subscribes to (lines 204, 209)
Subscribable(a) == {c \in Profile(a) : c.notify \/ c.indicate}

\* variant: the level is set instead of toggled
Toggle_set(l) == 1

\* notifyCB line 107
Toggle(l) == IF l # 0 THEN 0 ELSE 1

\* variant: the test of the second connect (line 172) lost its negation
ConnectFailed_inverted(s, ok) == IF s = 172 THEN ok ELSE ~ok

\* lines 127, 163, 172: if(!pClient->connect(...))
ConnectFailed(s, ok) == ~ok

\* variant: every failed connect deletes the client it was called on
DeletesOnFailure_any(s) == TRUE

\* lines 128-130, 164-166, 172-174: only the failure branch of the connect
\* at line 163 calls deleteClient
DeletesOnFailure(s) == s = 163

\* lines 220-222: getService("1812") and, if found, getCharacteristic("2A4D")
\* on the attribute table of the peer at address a; {} is nullptr
Distinguished(a) == {c \in Profile(a) : c.svc = "1812" /\ c.uuid = "2A4D"}

\* variant: without the characteristic the workflow reports failure
WorkflowResult_strict(pChr) == IF pChr = {} THEN "false" ELSE "true"

\* lines 227-251: the characteristic is read if it was found and is
\* readable, otherwise a message is printed; line 251 returns true
WorkflowResult(pChr) == "true"

\* second argument of the connect call at line s (default true)
RefreshArg(s) == s # 127

AnyConnected == \E i \in ClientIds : clients[i].exists /\ clients[i].connected

\* ----------------------------------------------------------------- Init
\* static initialisers of main.cpp, before app_main runs
Init ==
    /\ advDevice = NoDevice
    /\ doConnect = FALSE
    /\ pin_level = 0
    /\ gpio_level = -1
    /\ scanning = FALSE
    /\ clients = [i \in ClientIds |-> NoSlot]
    /\ pc = "boot"
    /\ wpc = "off"
    /\ pClient = NoClient
    /\ site = 0
    /\ how = "none"
    /\ before = {}
    /\ lastConn = "none"
    /\ okConn = FALSE
    /\ refreshed = FALSE
    /\ result = "none"
    /\ running = 0
    /\ inFlight = 0
    /\ nNotif = 0
    /\ lastCb = "none"
    /\ ep = NoEpisode

\* app_main: configure the pin, drive it with the function-local pin_level
\* (0), start the scan and create connectTask
app_main ==
    /\ pc = "boot"
    /\ gpio_level' = 0
    /\ scanning' = TRUE
    /\ pc' = "check"
    /\ UNCHANGED <<globals, clients, wpc, runVars, running, inFlight, nNotif,
                   lastCb, ep>>

\* ------------------------------------------------------------ callbacks
\* variant: the scan is left running when the target is found
onResult_nostop(a, uuids) ==
    /\ scanning
    /\ IF isAdvertisingService(uuids, "1812")
         THEN /\ advDevice' = a
              /\ doConnect' = TRUE
              /\ lastCb' = "Found Our Service"
              /\ UNCHANGED scanning
         ELSE /\ lastCb' = "ignored"
              /\ UNCHANGED <<scanning, advDevice, doConnect>>
    /\ ep' = EpisodeAfterAdv(ep, doConnect, doConnect', scanning, scanning')
    /\ UNCHANGED <<pin_level, gpio_level, clients, pc, wpc, runVars,
                   running, inFlight, nNotif>>

\* scanCallbacks::onResult, delivered while the scan is active
onResult(a, uuids) ==
    /\ scanning
    /\ IF isAdvertisingService(uuids, "1812")
         THEN /\ scanning' = FALSE
              /\ advDevice' = a
              /\ doConnect' = TRUE
              /\ lastCb' = "Found Our Service"
         ELSE /\ lastCb' = "ignored"
              /\ UNCHANGED <<scanning, advDevice, doConnect>>
    /\ ep' = EpisodeAfterAdv(ep, doConnect, doConnect', scanning, scanning')
    /\ UNCHANGED <<pin_level, gpio_level, clients, pc, wpc, runVars,
                   running, inFlight, nNotif>>

\* variant: onDisconnect does not start the scan
LinkDown_noscan(c) ==
    /\ clients' = [clients EXCEPT ![c].connected = FALSE, ![c].subs = {}]
    /\ ep' = ep
    /\ UNCHANGED scanning

\* the link of client c goes down and the stack calls
\* ClientCallbacks::onDisconnect (lines 39-43), which starts the scan
LinkDown(c) ==
    /\ clients' = [clients EXCEPT ![c].connected = FALSE, ![c].subs = {}]
    /\ scanning' = TRUE
    /\ ep' = IF ep.open THEN [ep EXCEPT !.restarted = TRUE] ELSE ep

\* the peer of client c drops the link
onDisconnect(c) ==
    /\ clients[c].exists /\ clients[c].connected
    /\ LinkDown(c)
    /\ UNCHANGED <<globals, gpio_level, pc, wpc, runVars, running, inFlight,
                   nNotif, lastCb>>

\* variant: the first client of the list, whatever the handle
getClientByID_first(cl, h) == Min({i \in ClientIds : cl[i].exists})

\* NimBLEDevice::getClientByID(connHandle): every connected client has its
\* own connection handle, identified here with its slot
getClientByID(cl, h) == h

\* ClientCallbacks::onAuthenticationComplete for the connection with handle
\* h: pairing has finished with the link encrypted or not.  If not, the
\* client with that handle is told to disconnect.  The termination and the
\* onDisconnect callback that reports it are part of this step: until that
\* callback runs, nothing main.cpp reads tells a client whose termination
\* is pending from a connected one.
onAuthenticationComplete(h, isEncrypted) ==
    /\ clients[h].exists /\ clients[h].connected
    /\ lastCb' = IF isEncrypted THEN lastCb ELSE "not encrypted"
    /\ LET c == getClientByID(clients, h)
       IN  IF ~isEncrypted /\ clients[c].connected
             THEN LinkDown(c)
             ELSE UNCHANGED <<clients, scanning, ep>>
    /\ UNCHANGED <<globals, gpio_level, pc, wpc, runVars, running, inFlight,
                   nNotif>>

\* notifyCB, delivered for a subscribed characteristic of a connected client
notifyCB(c, chr) ==
    /\ clients[c].exists /\ clients[c].connected
    /\ chr \in clients[c].subs
    /\ nNotif < MaxNotif
    /\ pin_level' = Toggle(pin_level)
    /\ gpio_level' = pin_level'
    /\ nNotif' = nNotif + 1
    /\ UNCHANGED <<advDevice, doConnect, scanning, clients, pc, wpc, runVars,
                   running, inFlight, lastCb, ep>>

\* ---------------------------------------------------------- connectTask
\* line 257: if(doConnect)
connectTask_check ==
    /\ pc = "check"
    /\ pc' = IF doConnect THEN "clear" ELSE "delay"
    /\ ep' = IF doConnect THEN NoEpisode ELSE ep
    /\ UNCHANGED <<globals, gpio_level, scanning, clients, wpc, runVars,
                   running, inFlight, nNotif, lastCb>>

\* line 258: doConnect = false
connectTask_clear ==
    /\ pc = "clear"
    /\ doConnect' = FALSE
    /\ pc' = "call"
    /\ UNCHANGED <<advDevice, pin_level, gpio_level, scanning, clients, wpc,
                   runVars, running, inFlight, nNotif, lastCb, ep>>

\* variant: the workflow is started without waiting for it to return
connectTask_call_async ==
    /\ pc = "call"
    /\ pc' = "delay"
    /\ wpc' = "acquire"
    /\ running' = running + 1
    /\ pClient' = NoClient
    /\ site' = 0
    /\ how' = "none"
    /\ before' = {i \in ClientIds : clients[i].exists}
    /\ lastConn' = "none"
    /\ okConn' = FALSE
    /\ refreshed' = FALSE
    /\ result' = "none"
    /\ UNCHANGED <<globals, gpio_level, scanning, clients, inFlight, nNotif,
                   lastCb, ep>>

\* line 260: connectToServer() is entered; the loop waits for it to return
connectTask_call ==
    /\ pc = "call"
    /\ pc' = "wait"
    /\ wpc' = "acquire"
    /\ running' = running + 1
    /\ pClient' = NoClient
    /\ site' = 0
    /\ how' = "none"
    /\ before' = {i \in ClientIds : clients[i].exists}
    /\ lastConn' = "none"
    /\ okConn' = FALSE
    /\ refreshed' = FALSE
    /\ result' = "none"
    /\ UNCHANGED <<globals, gpio_level, scanning, clients, inFlight, nNotif,
                   lastCb, ep>>

\* variant: the flag is cleared after the workflow has returned
connectTask_return_clears ==
    /\ pc = "wait"
    /\ wpc = "ret"
    /\ running' = running - 1
    /\ wpc' = "off"
    /\ pc' = "delay"
    /\ pClient' = NoClient
    /\ site' = 0
    /\ how' = "none"
    /\ before' = {}
    /\ lastConn' = "none"
    /\ okConn' = FALSE
    /\ refreshed' = FALSE
    /\ result' = "none"
    /\ doConnect' = FALSE
    /\ UNCHANGED <<advDevice, pin_level, gpio_level, scanning, clients, inFlight, nNotif,
                   lastCb, ep>>

\* lines 260-265: connectToServer() has returned; print the outcome
connectTask_return ==
    /\ pc = "wait"
    /\ wpc = "ret"
    /\ running' = running - 1
    /\ wpc' = "off"
    /\ pc' = "delay"
    /\ pClient' = NoClient
    /\ site' = 0
    /\ how' = "none"
    /\ before' = {}
    /\ lastConn' = "none"
    /\ okConn' = FALSE
    /\ refreshed' = FALSE
    /\ result' = "none"
    /\ UNCHANGED <<globals, gpio_level, scanning, clients, inFlight, nNotif,
                   lastCb, ep>>

\* variant: the task leaves the loop after its first iteration
connectTask_delay_exit ==
    /\ pc = "delay"
    /\ pc' = "exit"
    /\ UNCHANGED <<globals, gpio_level, scanning, clients, wpc, runVars,
                   running, inFlight, nNotif, lastCb, ep>>

\* line 267: vTaskDelay, then the next iteration
connectTask_delay ==
    /\ pc = "delay"
    /\ pc' = "check"
    /\ UNCHANGED <<globals, gpio_level, scanning, clients, wpc, runVars,
                   running, inFlight, nNotif, lastCb, ep>>

\* ------------------------------------------------------ connectToServer
\* lines 117-152: obtain pClient.  A client that knows the peer address is
\* reconnected (line 127); otherwise a disconnected client is reused; with
\* none to reuse a client is created unless the list is at the limit.  The
\* lookups are one step: callbacks neither add nor remove clients, and a
\* disconnect between two lookups has the effect of one before or after both.
cts_acquire ==
    /\ wpc = "acquire"
    /\ LET known == IF getClientListSize(clients) = 0 THEN NoClient
                    ELSE getClientByPeerAddress(clients, advDevice)
           idle  == IF getClientListSize(clients) = 0 THEN NoClient
                    ELSE getDisconnectedClient(clients)
       IN  IF known # NoClient
             THEN /\ pClient' = known
                  /\ how' = "byaddr"
                  /\ site' = 127
                  /\ wpc' = "connect"
                  /\ UNCHANGED <<clients, result>>
           ELSE IF idle # NoClient
             THEN /\ pClient' = idle
                  /\ how' = "disc"
                  /\ wpc' = "isconn"
                  /\ UNCHANGED <<clients, site, result>>
           ELSE IF ClientLimitReached(clients)
             THEN /\ result' = "false"
                  /\ wpc' = "ret"
                  /\ UNCHANGED <<clients, pClient, site, how>>
             ELSE LET n == createClient(clients)
                  IN  /\ clients' = [clients EXCEPT ![n] = NewClient]
                      /\ pClient' = n
                      /\ how' = "new"
                      /\ site' = 163
                      /\ wpc' = "connect"
                      /\ UNCHANGED result
    /\ UNCHANGED <<globals, gpio_level, scanning, pc, before, lastConn,
                   okConn, refreshed, running, inFlight, nNotif, lastCb, ep>>

\* lines 127, 163, 172: pClient->connect(advDevice[, false]) is called; the
\* client takes the peer address of the device
cts_connect ==
    /\ wpc = "connect"
    /\ clients' = [clients EXCEPT ![pClient].peer = advDevice]
    /\ inFlight' = inFlight + 1
    /\ wpc' = "connwait"
    /\ UNCHANGED <<globals, gpio_level, scanning, pc, runVars, running,
                   nNotif, lastCb, ep>>

\* the connect call returns with success or failure; on success the stack
\* has the client connected; on failure a client created in this run
\* (line 163) is deleted
cts_connected(ok) ==
    /\ wpc = "connwait"
    /\ inFlight' = inFlight - 1
    /\ lastConn' = IF ok THEN "ok" ELSE "fail"
    /\ okConn' = (okConn \/ ok)
    /\ LET linked == IF ok THEN [clients EXCEPT ![pClient].connected = TRUE]
                           ELSE clients
       IN  IF ConnectFailed(site, ok)
             THEN /\ clients' = IF DeletesOnFailure(site)
                                  THEN [linked EXCEPT ![pClient] = NoSlot]
                                  ELSE linked
                  /\ result' = "false"
                  /\ wpc' = "ret"
             ELSE /\ clients' = linked
                  /\ wpc' = IF site = 172 THEN "discover" ELSE "isconn"
                  /\ UNCHANGED result
    /\ UNCHANGED <<globals, gpio_level, scanning, pc, pClient, site, how,
                   before, refreshed, running, nNotif, lastCb, ep>>

\* lines 171-172: if(!pClient->isConnected()) connect again
cts_isconn ==
    /\ wpc = "isconn"
    /\ IF clients[pClient].connected
         THEN wpc' = "discover" /\ UNCHANGED site
         ELSE wpc' = "connect" /\ site' = 172
    /\ UNCHANGED <<globals, gpio_level, scanning, clients, pc, pClient, how,
                   before, lastConn, okConn, refreshed, result, running,
                   inFlight, nNotif, lastCb, ep>>

\* lines 178-218: getServices(true) rediscovers the attributes; every
\* characteristic that can notify or indicate is subscribed with notifyCB;
\* subscribed is the set of characteristics whose subscribe call succeeded
cts_discover(subscribed) ==
    /\ wpc = "discover"
    /\ refreshed' = TRUE
    /\ IF clients[pClient].connected
         THEN /\ subscribed \subseteq Subscribable(clients[pClient].peer)
              /\ clients' = [clients EXCEPT ![pClient].subs = subscribed]
         ELSE /\ subscribed = {}
              /\ UNCHANGED clients
    /\ wpc' = "locate"
    /\ UNCHANGED <<globals, gpio_level, scanning, pc, pClient, site, how,
                   before, lastConn, okConn, result, running, inFlight,
                   nNotif, lastCb, ep>>

\* lines 220-251: look up 0x1812 / 0x2A4D, read it if readable, return true
cts_locate ==
    /\ wpc = "locate"
    /\ result' = WorkflowResult(Distinguished(clients[pClient].peer))
    /\ wpc' = "ret"
    /\ UNCHANGED <<globals, gpio_level, scanning, clients, pc, pClient, site,
                   how, before, lastConn, okConn, refreshed, running, inFlight,
                   nNotif, lastCb, ep>>

connectToServer ==
    \/ cts_acquire
    \/ cts_connect
    \/ \E ok \in BOOLEAN : cts_connected(ok)
    \/ cts_isconn
    \/ \E s \in SUBSET AllChrs : cts_discover(s)
    \/ cts_locate

connectTask ==
    \/ connectTask_check
    \/ connectTask_clear
    \/ connectTask_call
    \/ connectTask_return
    \/ connectTask_delay

Callbacks ==
    \/ \E a \in Addrs, u \in AdvSets : onResult(a, u)
    \/ \E c \in ClientIds : onDisconnect(c)
    \/ \E h \in ClientIds, e \in BOOLEAN : onAuthenticationComplete(h, e)
    \/ \E c \in ClientIds : \E chr \in clients[c].subs : notifyCB(c, chr)

Next == app_main \/ connectTask \/ connectToServer \/ Callbacks

Spec == Init /\ [][Next]_vars

\* The application task is a FreeRTOS task that is never blocked for good:
\* vTaskDelay returns after 10 ms and every connect call returns within its
\* timeout.  The stack's callbacks are events that need not happen.
FairSpec == Spec /\ WF_vars(app_main) /\ WF_vars(connectTask \/ connectToServer)

\* ================================================================ claims

\* C1: an advertisement whose service UUID set lacks 0x1812 leaves the
\* connect-request flag, the stored device reference and the scan state as
\* they were: a step that changes one of them is not the delivery of such
\* an advertisement.
C1_NonMatchingAdvIsIgnored ==
    [][\/ UNCHANGED <<doConnect, advDevice, scanning>>
       \/ \A a \in Addrs, u \in AdvSets :
              "1812" \notin u => ~onResult(a, u)]_vars

C1_Witness ==
    lastCb = "ignored" /\ scanning /\ doConnect /\ advDevice # NoDevice

C3_RequestDuringRunIsKept ==
    [][/\ (wpc = "off" /\ wpc' # "off") => (pc = "call" /\ UNCHANGED doConnect)
       /\ (doConnect /\ (wpc # "off" \/ pc \in {"delay", "check"}))
              => doConnect'
       /\ (doConnect /\ pc = "check" /\ pc' # pc) => pc' = "clear"]_vars

C3_Witness ==
    pc = "wait" /\ wpc = "ret" /\ doConnect /\ ~scanning

\* C4: at most one run of connectToServer is in progress and at most one
\* connect call is waiting for the stack.
C4_OneRunOneConnect ==
    running <= 1 /\ inFlight <= running

C4_Witness ==
    running = 1 /\ inFlight = 1 /\ doConnect /\ AnyConnected

Handles == {i \in ClientIds : clients[i].exists}

C6_FailedConnectReleasesHandle ==
    (wpc = "ret" /\ lastConn = "fail")
        => /\ result = "false"
           /\ Handles = before
           /\ pClient \in Handles => ~clients[pClient].connected

\* C7: after N notifications the pin-state bit and the level driven on the
\* output pin both equal N mod 2, starting from level 0 set by app_main.
C7_PinLevelIsParity ==
    pc # "boot" => (pin_level = nNotif % 2 /\ gpio_level = nNotif % 2)

C7_Witness ==
    nNotif = 2 /\ pin_level = 0 /\ gpio_level = 0

\* C8: a run that reuses the handle found by peer address calls connect
\* with the second argument false and does no full attribute rediscovery.
C8_ReuseSkipsRediscovery ==
    (how = "byaddr" /\ wpc \in {"connwait", "isconn", "discover", "locate",
                                  "ret"})
        => (~RefreshArg(site) /\ ~refreshed)

\* C9: the client list never holds more than NIMBLE_MAX_CONNECTIONS
\* handles, and a run that obtained no handle returned failure without
\* creating a handle and without calling connect.
C9_ClientLimit ==
    /\ getClientListSize(clients) <= NIMBLE_MAX_CONNECTIONS
    /\ (wpc = "ret" /\ how = "none")
           => (result = "false" /\ lastConn = "none" /\ Handles = before)

C9_Witness ==
    /\ wpc = "ret" /\ how = "none" /\ result = "false"
    /\ getClientListSize(clients) = NIMBLE_MAX_CONNECTIONS

\* C10: when connectTask is between runs, nothing is connected and no
\* request is pending, the scan is active (so that a later advertisement
\* can raise a new request).
C10_ScanRestartedWhenIdle ==
    (pc \in {"check", "delay"} /\ ~AnyConnected /\ ~doConnect) => scanning

\* C12: when onAuthenticationComplete reports a link that is not encrypted,
\* the client with the reported connection handle is disconnected and every
\* other client is left as it was; when it reports an encrypted link, no
\* client changes.
C12_AuthFailureDisconnectsThatClient ==
    [][\A h \in ClientIds :
          /\ onAuthenticationComplete(h, FALSE)
                 => /\ ~clients'[h].connected
                    /\ \A o \in ClientIds \ {h} : clients'[o] = clients[o]
          /\ onAuthenticationComplete(h, TRUE) => clients' = clients]_vars

C12_Witness ==
    /\ lastCb = "not encrypted"
    /\ \E h, o \in ClientIds :
           /\ clients[h].exists /\ ~clients[h].connected
           /\ clients[o].exists /\ clients[o].connected

\* C11: under fair scheduling of connectTask, a set connect-request flag
\* leads to connectToServer being entered with the flag cleared by the loop,
\* and every run of connectToServer leads to the loop being idle again.
C11_RequestLeadsToRunLeadsToIdle ==
    /\ doConnect ~> (pc = "wait" /\ wpc = "acquire")
    /\ (wpc # "off") ~> (wpc = "off" /\ pc = "delay")

C11_Witness ==
    pc = "delay" /\ wpc = "off" /\ doConnect /\ Handles # {}

\* C13: notifyCB is subscribed only to characteristic 0x2A4D of service
\* 0x1812, and only if it can notify or indicate; no other characteristic of
\* a client is subscribed.
C13_OnlyReportCharSubscribed ==
    \A c \in ClientIds : \A chr \in clients[c].subs :
        chr.svc = "1812" /\ chr.uuid = "2A4D" /\ (chr.notify \/ chr.indicate)

\* C14: the steps of connectToServer after the connect (discovery and
\* subscription, lookup of 0x1812 / 0x2A4D) neither delete a client nor
\* change whether pClient is connected, whatever is missing or fails, and
\* the run then returns true.
C14_MissingItemsAreNotFatal ==
    [][(wpc \in {"discover", "locate"} /\ wpc' # wpc)
          => /\ Handles' = Handles
             /\ clients'[pClient].connected = clients[pClient].connected
             /\ wpc' = "ret" => result' = "true"]_vars

C14_Witness ==
    /\ wpc = "ret" /\ result = "true" /\ lastConn = "ok"
    /\ clients[pClient].exists /\ clients[pClient].connected
    /\ Distinguished(clients[pClient].peer) = {}
    /\ clients[pClient].subs # Subscribable(clients[pClient].peer)

\* C15: a run of connectToServer passes advDevice to connect at most once:
\* a connect call at line 172 is the first of its run, made on a
\* disconnected client obtained at line 137.
C15_ReferencePassedToConnectOnce ==
    (wpc = "connwait" /\ site = 172) => how = "disc"

\* C16: advDevice does not change from the entry of connectToServer to its
\* return.
C16_DeviceStableDuringRun ==
    [][(wpc # "off" /\ wpc' # "off") => advDevice' = advDevice]_vars

\* C17: the scan is not active while a connect call of connectToServer is
\* being made.
C17_NoScanDuringConnect ==
    wpc = "connwait" => ~scanning

\* C18: every step that takes a client from connected to not connected
\* leaves the scan active; the scan then stays active until a matching
\* advertisement stops it, and a matching advertisement raises the
\* connect-request flag (which, by C11, leads to a new run).
C18_DisconnectRestartsScan ==
    [][/\ (\E c \in ClientIds :
              clients[c].connected /\ ~clients'[c].connected) => scanning'
       /\ \/ doConnect'
          \/ /\ scanning => scanning'
             /\ \A a \in Addrs, u \in AdvSets :
                    "1812" \in u => ~onResult(a, u)]_vars

C18_Witness ==
    /\ wpc = "acquire" /\ ~doConnect /\ ~scanning
    /\ \E c \in ClientIds : /\ clients[c].exists /\ ~clients[c].connected
                             /\ clients[c].peer = advDevice

\* C19: a run in which the last connect call failed returns false and still
\* has every client handle that existed when it began; if it reused a
\* handle its handle set is unchanged, so a handle missing or added at the
\* end can only be one the run created.
C19_FailedConnectKeepsOldHandles ==
    (wpc = "ret" /\ lastConn = "fail")
        => /\ result = "false"
           /\ before \subseteq Handles
           /\ how \in {"byaddr", "disc"} => Handles = before

C19_Witness ==
    /\ wpc = "ret" /\ lastConn = "fail" /\ how = "byaddr"
    /\ site = 127 /\ pClient \in before
====
